---- MODULE Spec2Model ----
(***************************************************************************)
(* Kaspa Analytics Pro: the entitlement table and session/credential state *)
(* of utils/auth.py, the gating code of utils/ui.py and the pages, and the *)
(* analytics functions of utils/data.py.                                   *)
(***************************************************************************)
EXTENDS Integers, Sequences, FiniteSets, TLC

VARIABLES
    auth_config,   \* st.session_state.auth_config['credentials']['usernames']
    session,       \* st.session_state: the authentication keys and the page keys
    last,          \* outcome of the last auth/gating operation that ran
    df,            \* the DataFrame handed to an analytics function
    result,        \* what the analytics function returned for df
    clock,         \* wall clock in seconds (datetime.now(), time.time())
    rng,           \* numpy's process-wide random state
    cache,         \* st.cache_data store of fetch_kaspa_price_data
    netcache,      \* st.cache_data store of fetch_network_metrics
    calls,         \* a first call of fetch_kaspa_price_data and the latest
                   \* call with the same lookback length
    threads        \* script threads inside the fetch functions: the line each
                   \* has reached and its local values

vars == <<auth_config, session, last, df, result, clock, rng, cache, netcache, calls,
          threads>>

authVars == <<auth_config, session, last>>
dataVars == <<df, result>>
envVars  == <<clock, rng, netcache>>
genVars  == <<cache, calls, threads>>

(***************************************************************************)
(* utils/auth.py                                                           *)
(***************************************************************************)

\* Values of a session_state key: a deleted / never-set key, and Python's None.
Absent == "<absent>"
None   == "<None>"

Tiers == {"public", "free", "premium", "pro"}

\* Subscription strings a caller can pass: the four tiers and one other string.
TierInputs == Tiers \cup {"enterprise"}

KnownFeatures ==
    {"basic_charts", "advanced_charts", "power_law_basic", "power_law_advanced",
     "network_metrics", "data_export", "api_access", "custom_models", "admin_panel"}

FeatureInputs == KnownFeatures \cup {"unknown_feature"}

\* A table that is not monotone: power_law_basic for the free tier alone.
feature_requirements_free_only_power_law ==
    [basic_charts       |-> {"public", "free", "premium", "pro"},
     advanced_charts    |-> {"premium", "pro"},
     power_law_basic    |-> {"free"},
     power_law_advanced |-> {"premium", "pro"},
     network_metrics    |-> {"premium", "pro"},
     data_export        |-> {"premium", "pro"},
     api_access         |-> {"pro"},
     custom_models      |-> {"pro"},
     admin_panel        |-> {"pro"}]

\* A plausible slip in the table: power_law_basic opened to the public tier.
feature_requirements_public_power_law ==
    [basic_charts       |-> {"public", "free", "premium", "pro"},
     advanced_charts    |-> {"premium", "pro"},
     power_law_basic    |-> {"public", "free", "premium", "pro"},
     power_law_advanced |-> {"premium", "pro"},
     network_metrics    |-> {"premium", "pro"},
     data_export        |-> {"premium", "pro"},
     api_access         |-> {"pro"},
     custom_models      |-> {"pro"},
     admin_panel        |-> {"pro"}]

\* The dict literal built on every call of check_feature_access.
feature_requirements ==
    [basic_charts       |-> {"public", "free", "premium", "pro"},
     advanced_charts    |-> {"premium", "pro"},
     power_law_basic    |-> {"free", "premium", "pro"},
     power_law_advanced |-> {"premium", "pro"},
     network_metrics    |-> {"premium", "pro"},
     data_export        |-> {"premium", "pro"},
     api_access         |-> {"pro"},
     custom_models      |-> {"pro"},
     admin_panel        |-> {"pro"}]

\* A lookup that denies a feature the table does not name to every tier.
check_feature_access_unknown_denied(feature_name, user_subscription) ==
    /\ feature_name \in DOMAIN feature_requirements
    /\ user_subscription \in feature_requirements[feature_name]

check_feature_access(feature_name, user_subscription) ==
    LET required_subscriptions ==
            IF feature_name \in DOMAIN feature_requirements
            THEN feature_requirements[feature_name]
            ELSE {"pro"}
    IN  user_subscription \in required_subscriptions

\* Passwords: the stored form is plain text (hashed by the authenticator on
\* load, auto_hash) or a bcrypt hash made by add_user.
Plain(text)  == [hashed |-> FALSE, text |-> text]
Bcrypt(text) == [hashed |-> TRUE,  text |-> text]

\* E-mail addresses as sequences of characters.
ValidEmail   == <<"a", "@", "k">>
InvalidEmail == <<"a", "k">>
EmailInputs  == {ValidEmail, InvalidEmail}

HasAt(email) == \E i \in DOMAIN email : email[i] = "@"

UserRecord(email, password, subscription) ==
    [email                 |-> email,
     password              |-> password,
     subscription          |-> subscription,
     failed_login_attempts |-> 0,
     logged_in             |-> FALSE]

\* default_config['credentials']['usernames']
default_config ==
    [u \in {"admin", "premium_user", "free_user"} |->
        CASE u = "admin"        -> UserRecord(<<"a", "d", "@", "k">>, Plain("admin123"), "pro")
          [] u = "premium_user" -> UserRecord(<<"p", "r", "@", "e">>, Plain("premium123"), "premium")
          [] u = "free_user"    -> UserRecord(<<"f", "r", "@", "e">>, Plain("free123"), "free")]

\* Usernames a caller passes: one of the defaults, a new one, and the name
\* get_current_user gives to a session that is not logged in.
UsernameInputs == {"admin", "alice", "public"}

\* Passwords typed into the login form, and the one a registration chooses.
PasswordInputs == {"admin123", "secret1"}
NewPasswordInputs == {"secret1"}

is_authenticated == session.authentication_status = "True"

get_current_user ==
    IF is_authenticated
    THEN LET username == session.username
         IN  [name         |-> session.name,
              username     |-> username,
              subscription |-> IF username \in DOMAIN auth_config
                               THEN auth_config[username].subscription
                               ELSE "free"]
    ELSE [name         |-> "Public User",
          username     |-> "public",
          subscription |-> "public"]

Outcome(op, target, ok, username, subscription) ==
    [op |-> op, target |-> target, ok |-> ok,
     username |-> username, subscription |-> subscription]

NoOutcome == Outcome("none", "", FALSE, "", "")

\* A registration that stores the record without looking for the username.
add_user_overwrites(username, email, password, subscription) ==
    /\ IF ~HasAt(email)
       THEN /\ last' = Outcome("add_user", "Invalid email format", FALSE, username, "")
            /\ UNCHANGED auth_config
       ELSE /\ auth_config' =
                [u \in DOMAIN auth_config \cup {username} |->
                    IF u = username
                    THEN UserRecord(email, Bcrypt(password), subscription)
                    ELSE auth_config[u]]
            /\ last' = Outcome("add_user", "User created successfully", TRUE, username, "")
    /\ UNCHANGED session

\* An update that replaces the whole record by a fresh one of the new tier.
update_user_subscription_resets_record(username, new_subscription) ==
    /\ IF username \notin DOMAIN auth_config
       THEN /\ last' = Outcome("update_user_subscription", "User not found", FALSE, username, "")
            /\ UNCHANGED auth_config
       ELSE /\ auth_config' =
                [auth_config EXCEPT ![username] =
                    UserRecord(ValidEmail, @.password, new_subscription)]
            /\ last' = Outcome("update_user_subscription", "Subscription updated", TRUE, username, "")
    /\ UNCHANGED session

\* add_user: refuses a taken username and an e-mail without '@', else stores
\* one new record (created_at, a timestamp, is left out of the record).
add_user(username, email, password, subscription) ==
    /\ IF username \in DOMAIN auth_config
       THEN /\ last' = Outcome("add_user", "Username already exists", FALSE, username, "")
            /\ UNCHANGED auth_config
       ELSE IF ~HasAt(email)
       THEN /\ last' = Outcome("add_user", "Invalid email format", FALSE, username, "")
            /\ UNCHANGED auth_config
       ELSE /\ auth_config' =
                [u \in DOMAIN auth_config \cup {username} |->
                    IF u = username
                    THEN UserRecord(email, Bcrypt(password), subscription)
                    ELSE auth_config[u]]
            /\ last' = Outcome("add_user", "User created successfully", TRUE, username, "")
    /\ UNCHANGED session

update_user_subscription(username, new_subscription) ==
    /\ IF username \notin DOMAIN auth_config
       THEN /\ last' = Outcome("update_user_subscription", "User not found", FALSE, username, "")
            /\ UNCHANGED auth_config
       ELSE /\ auth_config' =
                [auth_config EXCEPT ![username].subscription = new_subscription]
            /\ last' = Outcome("update_user_subscription", "Subscription updated", TRUE, username, "")
    /\ UNCHANGED session

\* authenticator.login() of render_login_tab: the form is shown to a session
\* that is not logged in; it checks the password against the stored one and
\* sets authentication_status, username and name in the session.
PasswordMatches(stored, text) == stored.text = text

\* The keys logout_user deletes: auth_keys before and page_keys after its
\* call of the authenticator.
auth_keys == {"authentication_status", "name", "username", "logout"}
page_keys == {"show_profile", "show_auth", "auth_tab", "current_page"}

\* A session_state in which none of these keys has been set.
NewSession == [key \in auth_keys \cup page_keys |-> Absent]

Delete(state, keys) ==
    [key \in DOMAIN state |-> IF key \in keys THEN Absent ELSE state[key]]

\* get_authenticator(): constructing stauth.Authenticate gives the value None
\* to each of the keys it manages that the session does not hold; a
\* construction that raises leaves the session as it was.
get_authenticator(state, raised) ==
    IF raised THEN state
    ELSE [key \in DOMAIN state |->
            IF key \in auth_keys /\ state[key] = Absent THEN None ELSE state[key]]

\* set_current_page(page_name)
set_current_page(state, page_name) == [state EXCEPT !.current_page = page_name]

login(username, password) ==
    /\ ~is_authenticated
    /\ LET state == get_authenticator(set_current_page(session, "authentication"), FALSE)
       IN  IF username \in DOMAIN auth_config
              /\ PasswordMatches(auth_config[username].password, password)
           THEN session' = [state EXCEPT !.authentication_status = "True",
                                         !.username = username, !.name = username]
           ELSE session' = [state EXCEPT !.authentication_status = "False",
                                         !.username = None, !.name = None]
    /\ last' = Outcome("login", "", session'.authentication_status = "True", username, "")
    /\ UNCHANGED auth_config

\* A logout that clears the authentication keys and leaves the page keys.
logout_user_keeps_page_keys ==
    /\ session' = Delete(session, auth_keys)
    /\ last' = Outcome("logout_user", "", TRUE, "", "")
    /\ UNCHANGED auth_config

\* logout_user deletes the session's authentication keys, constructs the
\* authenticator and calls its logout() (which, for a session that is no
\* longer logged in, draws a button or raises: try/except), then deletes the
\* page keys; the credential store is not written.
logout_user ==
    /\ \E raised \in BOOLEAN :
            session' = Delete(get_authenticator(Delete(session, auth_keys), raised),
                              page_keys)
    /\ last' = Outcome("logout_user", "", TRUE, "", "")
    /\ UNCHANGED auth_config

\* pages/6_Admin_Panel.py main(): content is rendered unless the early return.
admin_panel_granted(user) == ~(user.username # "admin")

AdminPanelMain ==
    /\ LET user == get_current_user
       IN  last' = Outcome("admin_panel_main", "admin_panel",
                           admin_panel_granted(user), user.username, user.subscription)
    /\ UNCHANGED <<auth_config, session>>

\* pages/2_Power_Law.py main(): the login prompt and an early return for the
\* username 'public', else the basic content for tier free and the advanced
\* content for any other tier.
power_law_main(user) ==
    IF user.username = "public" THEN "login_prompt"
    ELSE IF user.subscription = "free" THEN "basic"
    ELSE "advanced"

\* pages/3_Network_Metrics.py and pages/4_Data_Export.py main(): content is
\* rendered unless the early return.
network_metrics_main(user) == ~(user.subscription \notin {"premium", "pro"})
data_export_main(user)     == ~(user.subscription \notin {"premium", "pro"})

GatedPages == {"power_law", "network_metrics", "data_export"}

\* A gated page runs its main(): what it shows and whether that is content.
PageMain(page) ==
    /\ LET user  == get_current_user
           shown == CASE page = "power_law"       -> power_law_main(user)
                      [] page = "network_metrics" ->
                            IF network_metrics_main(user) THEN "content" ELSE "upgrade_prompt"
                      [] page = "data_export"     ->
                            IF data_export_main(user) THEN "content" ELSE "upgrade_prompt"
       IN  last' = [Outcome("page_main", page,
                            shown \in {"content", "basic", "advanced"},
                            user.username, user.subscription)
                        EXCEPT !.target = <<page, shown>>]
    /\ UNCHANGED <<auth_config, session>>

page_mapping ==
    [dashboard       |-> "streamlit_app.py",
     price_charts    |-> "pages/price_charts.py",
     power_law       |-> "pages/power_law.py",
     network_metrics |-> "pages/network_metrics.py",
     data_export     |-> "pages/data_export.py",
     authentication  |-> "pages/authentication.py",
     admin_panel     |-> "pages/admin_panel.py"]

\* Menu selections: the mapped pages, an unmapped item and no selection ("").
PageInputs == DOMAIN page_mapping \cup {"kaspa_org", ""}

\* handle_menu_selection: the page of st.switch_page ("" when none is called)
\* and whether the call is the final one, to the selected page itself.
handle_menu_selection(selected_page, user) ==
    IF selected_page = ""
    THEN [switch_page |-> "", navigated |-> FALSE]
    ELSE IF selected_page \notin DOMAIN page_mapping
    THEN [switch_page |-> "", navigated |-> FALSE]
    ELSE IF selected_page \in {"power_law"} /\ user.subscription = "public"
    THEN [switch_page |-> "pages/authentication.py", navigated |-> FALSE]
    ELSE IF /\ selected_page \in {"network_metrics", "data_export"}
            /\ ~check_feature_access(
                    IF selected_page = "network_metrics"
                    THEN "network_metrics" ELSE "data_export",
                    user.subscription)
    THEN [switch_page |-> "pages/authentication.py", navigated |-> FALSE]
    ELSE IF selected_page = "admin_panel" /\ user.username # "admin"
    THEN [switch_page |-> "", navigated |-> FALSE]
    ELSE [switch_page |-> page_mapping[selected_page], navigated |-> TRUE]

HandleMenuSelection(selected_page) ==
    /\ LET user == get_current_user
       IN  last' = Outcome("handle_menu_selection", selected_page,
                           handle_menu_selection(selected_page, user).navigated,
                           user.username, user.subscription)
    /\ UNCHANGED <<auth_config, session>>

\* build_menu_items: whether a gated item is offered (present and not disabled).
GatedItems == {"power_law", "network_metrics", "data_export", "admin_panel"}

build_menu_items(item, user) ==
    CASE item = "power_law"       -> ~(user.subscription = "public")
      [] item = "network_metrics" -> check_feature_access("network_metrics", user.subscription)
      [] item = "data_export"     -> check_feature_access("data_export", user.subscription)
      [] item = "admin_panel"     -> user.username = "admin"

BuildMenuItems(item) ==
    /\ LET user == get_current_user
       IN  last' = Outcome("build_menu_items", item, build_menu_items(item, user),
                           user.username, user.subscription)
    /\ UNCHANGED <<auth_config, session>>

CheckFeatureAccess(feature_name, user_subscription) ==
    /\ last' = Outcome("check_feature_access", feature_name,
                       check_feature_access(feature_name, user_subscription),
                       "", user_subscription)
    /\ UNCHANGED <<auth_config, session>>

\* Values of the variables a specification does not use.
NoFrame == <<>>

IdleData == df = NoFrame /\ result = NoFrame
IdleEnv  == clock = 0 /\ rng = NoFrame /\ netcache = NoFrame
IdleGen  == cache = NoFrame /\ calls = NoFrame /\ threads = NoFrame
IdleAuth == auth_config = default_config
            /\ session = NewSession
            /\ last = NoOutcome

Init == IdleAuth /\ IdleData /\ IdleEnv /\ IdleGen

AddUser ==
    /\ \E username \in UsernameInputs, email \in EmailInputs,
          password \in NewPasswordInputs, subscription \in TierInputs :
            add_user(username, email, password, subscription)
    /\ UNCHANGED <<dataVars, envVars, genVars>>

UpdateUserSubscription ==
    /\ \E username \in UsernameInputs, new_subscription \in TierInputs :
            update_user_subscription(username, new_subscription)
    /\ UNCHANGED <<dataVars, envVars, genVars>>

Login ==
    /\ \E username \in UsernameInputs, password \in PasswordInputs :
            login(username, password)
    /\ UNCHANGED <<dataVars, envVars, genVars>>

Logout ==
    /\ logout_user
    /\ UNCHANGED <<dataVars, envVars, genVars>>

AdminPanel ==
    /\ AdminPanelMain
    /\ UNCHANGED <<dataVars, envVars, genVars>>

SelectMenu ==
    /\ \E selected_page \in PageInputs : HandleMenuSelection(selected_page)
    /\ UNCHANGED <<dataVars, envVars, genVars>>

BuildMenu ==
    /\ \E item \in GatedItems : BuildMenuItems(item)
    /\ UNCHANGED <<dataVars, envVars, genVars>>

ViewPage ==
    /\ \E page \in GatedPages : PageMain(page)
    /\ UNCHANGED <<dataVars, envVars, genVars>>

CheckAccess ==
    /\ \E feature_name \in FeatureInputs, user_subscription \in TierInputs :
            CheckFeatureAccess(feature_name, user_subscription)
    /\ UNCHANGED <<dataVars, envVars, genVars>>

Next ==
    \/ AddUser
    \/ UpdateUserSubscription
    \/ Login
    \/ Logout
    \/ AdminPanel
    \/ SelectMenu
    \/ BuildMenu
    \/ ViewPage
    \/ CheckAccess

Spec == Init /\ [][Next]_vars

(***************************************************************************)
(* Claims about the entitlement table and the gating code                  *)
(***************************************************************************)

\* The table as the specification enumerates it.
EntitlementPairs ==
    ({"basic_charts"} \X {"public", "free", "premium", "pro"})
    \cup ({"power_law_basic"} \X {"free", "premium", "pro"})
    \cup ({"advanced_charts", "power_law_advanced", "network_metrics", "data_export"}
            \X {"premium", "pro"})
    \cup ({"api_access", "custom_models", "admin_panel"} \X {"pro"})

\* C1: for each of the nine named features and each of the four tiers,
\* check_feature_access returns true exactly for the pairs of the static
\* table, whatever add_user, update_user_subscription, login and logout did
\* before the call (the result depends on the pair alone).
C1_EntitlementTable ==
    (/\ last.op = "check_feature_access"
     /\ last.target \in KnownFeatures
     /\ last.subscription \in Tiers)
        => (last.ok <=> <<last.target, last.subscription>> \in EntitlementPairs)

\* C1 witness: a free-tier lookup of power_law_basic answered true after the
\* credential store and the session have both been changed.
C1_Witness ==
    /\ last.op = "check_feature_access"
    /\ last.target = "power_law_basic"
    /\ last.subscription = "free"
    /\ last.ok
    /\ auth_config # default_config
    /\ is_authenticated

AdminAccessDecision ==
    \/ last.op = "admin_panel_main"
    \/ /\ last.op \in {"handle_menu_selection", "build_menu_items"}
       /\ last.target = "admin_panel"

\* C2: admin-panel access (the page rendering its content, the menu handler
\* navigating to admin_panel, the admin menu item being built) is granted
\* only to a user whose tier is pro and whose username is admin.
C2_AdminNeedsProAndIdentity ==
    (AdminAccessDecision /\ last.ok)
        => (last.subscription = "pro" /\ last.username = "admin")

\* C3: the subscription tier get_current_user returns is one of public,
\* free, premium, pro in every reachable state.
C3_TierIsOneOfFour == get_current_user.subscription \in Tiers

(***************************************************************************)
(* utils/data.py: environment shared by the analytics functions            *)
(***************************************************************************)

\* Bounds of the model.
MaxExtra  == 2     \* series lengths and positions within MaxExtra of a threshold
MaxPrice  == 3     \* prices of the hand-made series range over 0..MaxPrice
MaxSeed   == 1     \* states 0..MaxSeed of the random generator at start-up
MaxDays   == 1     \* longest lookback length (days) of fetch_kaspa_price_data
TickStep  == 150   \* seconds by which the clock advances in one step
MaxClock  == 600   \* the clock stops advancing here
ExamplePoints == 200   \* length of the rising example series
ExampleLow    == 100   \* its first price, in ten-thousandths (0.01)
ExampleHigh   == 500   \* its last price, in ten-thousandths (0.05)

Max(a, b) == IF a >= b THEN a ELSE b
Min(a, b) == IF a <= b THEN a ELSE b
Abs(a)    == IF a >= 0 THEN a ELSE -a

\* Sum, maximum and minimum of s[lo..hi], by halving the range.
RECURSIVE SumRange(_, _, _)
SumRange(s, lo, hi) ==
    IF lo > hi THEN 0
    ELSE IF lo = hi THEN s[lo]
    ELSE LET mid == (lo + hi) \div 2
         IN  SumRange(s, lo, mid) + SumRange(s, mid + 1, hi)

RECURSIVE MaxRange(_, _, _)
MaxRange(s, lo, hi) ==
    IF lo = hi THEN s[lo]
    ELSE LET mid == (lo + hi) \div 2
         IN  Max(MaxRange(s, lo, mid), MaxRange(s, mid + 1, hi))

RECURSIVE MinRange(_, _, _)
MinRange(s, lo, hi) ==
    IF lo = hi THEN s[lo]
    ELSE LET mid == (lo + hi) \div 2
         IN  Min(MinRange(s, lo, mid), MinRange(s, mid + 1, hi))

SumSeq(s) == SumRange(s, 1, Len(s))
MaxSeq(s) == MaxRange(s, 1, Len(s))
MinSeq(s) == MinRange(s, 1, Len(s))

Column(frame, name) == [i \in 1..Len(frame) |-> frame[i][name]]

\* Floating-point results: a finite quotient num/den, or what IEEE division
\* by zero gives (numpy warns and goes on).
Finite(num, den) == [kind |-> "finite", num |-> num, den |-> den]
Infinite(sign)   == [kind |-> "inf", num |-> sign, den |-> 0]
NaN              == [kind |-> "nan", num |-> 0, den |-> 0]

\* numpy float64 true division a / b for integer-valued a, b.
Div(a, b) ==
    IF b # 0 THEN Finite(a, b)
    ELSE IF a > 0 THEN Infinite(1)
    ELSE IF a < 0 THEN Infinite(-1)
    ELSE NaN

\* Equality of two floating-point results as numbers.
SameNumber(x, y) ==
    /\ x.kind = y.kind
    /\ x.kind = "finite" => x.num * y.den = y.num * x.den
    /\ x.kind = "inf" => x.num = y.num

IsZero(x) == x.kind = "finite" /\ x.num = 0

\* The generator's draw number pos after seeding with seed: a value 0..1008.
Rand(seed, pos) ==
    (((seed % 97) * 31 + 17) * (pos * pos + 7 * pos + 3) + 13 * pos) % 1009

Seeded(seed, drawn) == [seed |-> seed, pos |-> drawn]

\* st.cache_data entries: the stored value and when it was stored.
NoEntry == [stored |-> -1, value |-> <<>>]
Entry(value) == [stored |-> clock, value |-> value]
Fresh(entry, ttl) == entry.stored >= 0 /\ clock < entry.stored + ttl

\* A large amount kept as value * 10^exp10.
Quantity(value, exp10) == [value |-> value, exp10 |-> exp10]

\* 18_500_000_000, the literal of lines 103 and 135: 18.5 * 10^9.
supply_18_5_billion == Quantity(Finite(185, 10), 9)

NetworkTTL    == 600
SeedPeriod    == 600
NetworkDraws  == 6

\* Body of fetch_network_metrics at the present clock (units: hash_rate in
\* hundredths of EH/s).
\* The dictionary of lines 127-137 from the generator states at which line
\* 124 and lines 130-134 drew (block_time is the first draw of the latter).
network_metrics_from_draws(draws) ==
    LET hashrate_variation == (Rand(draws[1].seed, draws[1].pos) % 41) - 20
    IN  [hash_rate          |-> Max(50, 120 + hashrate_variation),
         active_addresses   |-> 40000 + (Rand(draws[2].seed, draws[2].pos + 1) % 10000),
         circulating_supply |-> supply_18_5_billion]

network_metrics ==
    LET seed == clock \div SeedPeriod
    IN  network_metrics_from_draws(<<Seeded(seed, 0), Seeded(seed, 1)>>)

NetworkHit == Fresh(netcache, NetworkTTL)

\* What a call of fetch_network_metrics returns, and what it does to the
\* cache and to numpy's random state.
fetch_network_metrics ==
    IF NetworkHit THEN netcache.value ELSE network_metrics

FetchNetworkMetricsEffect ==
    IF NetworkHit
    THEN UNCHANGED <<rng, netcache>>
    ELSE /\ rng' = Seeded(clock \div SeedPeriod, NetworkDraws)
         /\ netcache' = Entry(network_metrics)

(***************************************************************************)
(* get_market_stats                                                        *)
(***************************************************************************)

Horizon1d  == 24
Horizon7d  == 168
Horizon30d == 720
Tail24     == 24
Tail168    == 168
Horizons   == {Horizon1d, Horizon7d, Horizon30d}

\* A tail that reaches one row too far back.
tail_one_more(s, k) == SubSeq(s, Max(1, Len(s) - k), Len(s))

\* pandas .iloc[-k] and .tail(k) of a column.
iloc_neg(s, k) == s[Len(s) + 1 - k]
tail(s, k)     == SubSeq(s, Max(1, Len(s) - k + 1), Len(s))

\* Reference price of a horizon, as lines 152-154 pick it.
reference_price(prices, h) ==
    IF Len(prices) > h THEN iloc_neg(prices, h) ELSE prices[Len(prices)]

\* The change of the reference against the current price: the two swapped.
pct_change_swapped(current_price, price_ref) ==
    Div((price_ref - current_price) * 100, current_price)

\* ((current_price - price_ref) / price_ref) * 100
pct_change(current_price, price_ref) ==
    Div((current_price - price_ref) * 100, price_ref)

\* A market cap from a supply rounded to 18 (billion).
market_cap_of_rounded_supply(current_price) == Div(current_price * 18, 1)

\* current_price * 18.5
market_cap(current_price) == Div(current_price * 185, 10)

\* Lines 94-105 of fetch_real_kaspa_price on the frame it fetched: the
\* market cap is current_price * 18_500_000_000.
real_kaspa_price(frame) ==
    LET prices        == Column(frame, "price")
        current_price == prices[Len(prices)]
        prev_price    == reference_price(prices, Horizon1d)
    IN  [price      |-> current_price,
         change_24h |-> pct_change(current_price, prev_price),
         volume_24h |-> SumSeq(tail(Column(frame, "volume"), Tail24)),
         market_cap |-> Quantity(Div(current_price * supply_18_5_billion.value.num,
                                     supply_18_5_billion.value.den),
                                 supply_18_5_billion.exp10)]

volume_24h(frame) == SumSeq(tail(Column(frame, "volume"), Tail24))
high_24h(frame)   == MaxSeq(tail(Column(frame, "high"), Tail24))
low_24h(frame)    == MinSeq(tail(Column(frame, "low"), Tail24))

EmptyDict == <<>>

get_market_stats(frame, network_data) ==
    LET prices        == Column(frame, "price")
        current_price == prices[Len(prices)]
        price_1d      == reference_price(prices, Horizon1d)
        price_7d      == reference_price(prices, Horizon7d)
        price_30d     == reference_price(prices, Horizon30d)
        volumes_7d    == tail(Column(frame, "volume"), Tail168)
    IN  [current_price    |-> current_price,
         price_change_24h |-> pct_change(current_price, price_1d),
         price_change_7d  |-> pct_change(current_price, price_7d),
         price_change_30d |-> pct_change(current_price, price_30d),
         volume_24h       |-> volume_24h(frame),
         volume_7d_avg    |-> Div(SumSeq(volumes_7d), Len(volumes_7d)),
         high_24h         |-> high_24h(frame),
         low_24h          |-> low_24h(frame),
         market_cap       |-> market_cap(current_price),
         hash_rate        |-> network_data.hash_rate,
         active_addresses |-> network_data.active_addresses]

Returned(fn, value) == [fn |-> fn, value |-> value]
NotCalled == Returned("none", EmptyDict)

GetMarketStats ==
    /\ result = NotCalled
    /\ IF df = <<>>
       THEN /\ result' = Returned("get_market_stats", EmptyDict)
            /\ UNCHANGED <<rng, netcache>>
       ELSE /\ result' = Returned("get_market_stats",
                                  get_market_stats(df, fetch_network_metrics))
            /\ FetchNetworkMetricsEffect
    /\ UNCHANGED <<df, clock, authVars, genVars>>

\* Hand-made input rows: hourly timestamps, the other columns spread around
\* the price so that no two columns and no two neighbouring rows coincide.
MkRow(i, price) ==
    [timestamp |-> (i - 1) * 3600,
     price     |-> price,
     volume    |-> 100 + 7 * price + (i % 5),
     high      |-> price + 1 + (i % 2),
     low       |-> price - 1 - (i % 3),
     open      |-> price,
     close     |-> price]

BasePrice == MaxPrice - 1

\* A series of n points at the base price with one point of another price.
SpikeFrame(n, at, price) ==
    [i \in 1..n |-> MkRow(i, IF i = at THEN price ELSE BasePrice)]

StatsLengths ==
    {n \in 0..(Horizon30d + MaxExtra) :
        \/ n <= MaxExtra
        \/ \E h \in Horizons : n - h \in (-MaxExtra)..MaxExtra}

SpikePositions(n) ==
    {at \in 1..n :
        \/ at = 1
        \/ at = n
        \/ \E h \in Horizons : at - (n - h) \in (-1)..MaxExtra}

StatsFrames ==
    {SpikeFrame(n, 0, BasePrice) : n \in StatsLengths}
    \cup UNION {{SpikeFrame(n, at, price) :
                    at \in SpikePositions(n), price \in (0..MaxPrice) \ {BasePrice}} :
                n \in StatsLengths}

StartEnv ==
    /\ clock \in {0, TickStep}
    /\ rng \in {Seeded(seed, 0) : seed \in 0..MaxSeed}
    /\ netcache = NoEntry

InitStats ==
    /\ df \in StatsFrames
    /\ result = NotCalled
    /\ StartEnv
    /\ IdleAuth /\ IdleGen

NextStats == GetMarketStats

SpecStats == InitStats /\ [][NextStats]_vars

(***************************************************************************)
(* Claims about get_market_stats                                           *)
(***************************************************************************)

StatsReturned == result.fn = "get_market_stats" /\ df # <<>>

ChangeOf(stats, h) ==
    CASE h = Horizon1d  -> stats.price_change_24h
      [] h = Horizon7d  -> stats.price_change_7d
      [] h = Horizon30d -> stats.price_change_30d

LastPrice  == df[Len(df)].price
FirstPrice == df[1].price

\* C6: for each horizon h in {24, 168, 720}, on a series of more than h
\* points the reported change is the percentage change of the last price
\* against the price h steps back (0-based index len-1-h, the row len-h here).
C6_ReferenceIsHStepsBack ==
    StatsReturned =>
        \A h \in Horizons :
            Len(df) > h =>
                SameNumber(ChangeOf(result.value, h),
                           pct_change(LastPrice, df[Len(df) - h].price))

\* C7: on a series of h or fewer points the reported change is taken against
\* the first point of the series; so on at most 24 points price_change_24h
\* is 0 only if the last price equals the first.
C7_ShortSeriesUsesFirstPoint ==
    StatsReturned =>
        /\ \A h \in Horizons :
                Len(df) <= h =>
                    SameNumber(ChangeOf(result.value, h),
                               pct_change(LastPrice, FirstPrice))
        /\ (Len(df) <= Horizon1d /\ IsZero(result.value.price_change_24h))
                => LastPrice = FirstPrice

\* The rows of the trailing 24 points (all rows of a shorter series).
TrailingRows == {i \in 1..Len(df) : i > Len(df) - 24}

RECURSIVE VolumeFrom(_)
VolumeFrom(i) == IF i > Len(df) THEN 0 ELSE df[i].volume + VolumeFrom(i + 1)

\* C8: volume_24h is the sum of volume, high_24h the maximum of high and
\* low_24h the minimum of low over exactly the trailing 24 points, or over
\* all points of a shorter series; older points have no influence.
C8_TrailingAggregates ==
    StatsReturned =>
        /\ result.value.volume_24h = VolumeFrom(Max(1, Len(df) - 23))
        /\ \E i \in TrailingRows : result.value.high_24h = df[i].high
        /\ \A i \in TrailingRows : result.value.high_24h >= df[i].high
        /\ \E i \in TrailingRows : result.value.low_24h = df[i].low
        /\ \A i \in TrailingRows : result.value.low_24h <= df[i].low

\* C8 witness: a series of more than 24 points whose highest price (and so
\* its highest high and volume) sits on the last point before the trailing 24.
C8_Witness ==
    /\ StatsReturned
    /\ Len(df) > 24
    /\ df[Len(df) - 24].price = MaxPrice
    /\ \A i \in TrailingRows : df[i].high < df[Len(df) - 24].high

\* C9: when the reference price of a horizon is zero the reported change of
\* that horizon is 0, not an infinite or undefined value.
C9_ZeroReferenceGivesZero ==
    StatsReturned =>
        \A h \in Horizons :
            reference_price(Column(df, "price"), h) = 0
                => IsZero(ChangeOf(result.value, h))

(***************************************************************************)
(* calculate_power_law_models                                              *)
(***************************************************************************)

MinRows         == 100
MinPositiveRows == 50

\* (a, b, c) of a * (days / 365 + 0.1) ^ b + c, in thousandths, tenths and
\* thousandths.
conservative_params == [a |-> 10, b |-> 12, c |-> 8]
base_params         == [a |-> 15, b |-> 15, c |-> 10]
aggressive_params   == [a |-> 20, b |-> 18, c |-> 12]

\* A curve value is kept as the term the code evaluates: the parameters and
\* the day offset (in seconds since the first timestamp).
CurvePoint(params, seconds) ==
    [a |-> params.a, b |-> params.b, c |-> params.c, seconds |-> seconds]

Curve(params, offsets) == [i \in 1..Len(offsets) |-> CurvePoint(params, offsets[i])]

\* (current_price / model[-1] - 1) * 100, as a term.
Deviation(current_price, point) == [price |-> current_price, against |-> point]

\* np.corrcoef(np.log(prices), np.log(days + 1))[0, 1], as a term.
Correlation(prices, offsets) == [log_prices |-> prices, log_days_plus_1 |-> offsets]

\* A filter that keeps every row.
IsPositive_keeps_all(row) == row.price = row.price

\* df_calc['price'] > 0
IsPositive(row) == row.price > 0

\* The three parameter triples of lines 217-223.
scenario_params ==
    [conservative |-> conservative_params, base |-> base_params,
     aggressive |-> aggressive_params]

\* A goodness of fit measured against the base curve, as the comment of
\* line 231 words it, in place of the day offsets.
goodness_of_fit_against_base_model(prices, offsets, base_model) ==
    Correlation(prices, base_model)

\* Lines 232-234, with the locals in scope there: the correlation of the
\* log prices with the log day offsets.
goodness_of_fit(prices, offsets, base_model) == Correlation(prices, offsets)

\* Lines 212-253 for given parameter triples of the three curves.
power_law_result_with(df_calc, start_date, params) ==
    LET offsets == [i \in 1..Len(df_calc) |-> df_calc[i].timestamp - start_date]
        prices  == Column(df_calc, "price")
        conservative_model == Curve(params.conservative, offsets)
        base_model         == Curve(params.base, offsets)
        aggressive_model   == Curve(params.aggressive, offsets)
        current_price      == prices[Len(prices)]
        correlation        == goodness_of_fit(prices, offsets, base_model)
    IN  [timestamps         |-> Column(df_calc, "timestamp"),
         actual_prices      |-> prices,
         conservative_model |-> conservative_model,
         base_model         |-> base_model,
         aggressive_model   |-> aggressive_model,
         deviations |->
            [conservative |-> Deviation(current_price, conservative_model[Len(offsets)]),
             base         |-> Deviation(current_price, base_model[Len(offsets)]),
             aggressive   |-> Deviation(current_price, aggressive_model[Len(offsets)])],
         statistics |->
            [r_squared   |-> [square_of |-> correlation],
             correlation |-> correlation,
             data_points |-> Len(df_calc)]]

power_law_result(df_calc, start_date) ==
    power_law_result_with(df_calc, start_date, scenario_params)

\* The same function without the second length check (line 209).
calculate_power_law_models_unfiltered_check(frame) ==
    IF frame = <<>> \/ Len(frame) < MinRows
    THEN EmptyDict
    ELSE LET df_calc == SelectSeq(frame, IsPositive)
         IN  IF df_calc = <<>> THEN EmptyDict
             ELSE power_law_result(df_calc, MinSeq(Column(frame, "timestamp")))

calculate_power_law_models(frame) ==
    IF frame = <<>> \/ Len(frame) < MinRows
    THEN EmptyDict
    ELSE LET start_date == MinSeq(Column(frame, "timestamp"))
             df_calc    == SelectSeq(frame, IsPositive)
         IN  IF Len(df_calc) < MinPositiveRows
             THEN EmptyDict
             ELSE power_law_result(df_calc, start_date)

CalculatePowerLawModels ==
    /\ result = NotCalled
    /\ result' = Returned("calculate_power_law_models", calculate_power_law_models(df))
    /\ UNCHANGED <<df, envVars, authVars, genVars>>

\* Input series of n rows of which `bad` rows, at the head or at the tail,
\* carry a price that is zero or negative.
PowerLawFrame(n, bad, at_head, bad_price) ==
    [i \in 1..n |->
        MkRow(i, IF (at_head /\ i <= bad) \/ (~at_head /\ i > n - bad)
                 THEN bad_price
                 ELSE 1 + (i % MaxPrice))]

PowerLawLengths == {0, 40} \cup ((MinRows - MaxExtra)..(MinRows + MaxExtra))

BadCounts(n) ==
    {0, n} \cup {bad \in 1..n : (n - bad) - MinPositiveRows \in (-MaxExtra)..MaxExtra}

PowerLawFrames ==
    UNION {{PowerLawFrame(n, bad, at_head, bad_price) :
                bad \in BadCounts(n), at_head \in BOOLEAN, bad_price \in {0, -1}} :
           n \in PowerLawLengths}

InitPowerLaw ==
    /\ df \in PowerLawFrames
    /\ result = NotCalled
    /\ StartEnv
    /\ IdleAuth /\ IdleGen

NextPowerLaw == CalculatePowerLawModels

SpecPowerLaw == InitPowerLaw /\ [][NextPowerLaw]_vars

\* C4: calculate_power_law_models returns the empty (insufficient-data)
\* result whenever the input has fewer than 100 rows or fewer than 50 rows
\* with price > 0, and otherwise a complete result: every key present, the
\* three curves, the three deviations, r_squared, correlation, data_points.
\* A 40-point series gives the empty result.
PowerLawKeys ==
    {"timestamps", "actual_prices", "conservative_model", "base_model",
     "aggressive_model", "deviations", "statistics"}

PositiveRows == {i \in 1..Len(df) : df[i].price > 0}

CompletePowerLaw(value) ==
    /\ DOMAIN value = PowerLawKeys
    /\ DOMAIN value.deviations = {"conservative", "base", "aggressive"}
    /\ DOMAIN value.statistics = {"r_squared", "correlation", "data_points"}
    /\ value.statistics.data_points = Cardinality(PositiveRows)
    /\ \A key \in {"conservative_model", "base_model", "aggressive_model"} :
            Len(value[key]) = Cardinality(PositiveRows)

C4_PowerLawAllOrNothing ==
    result.fn = "calculate_power_law_models" =>
        /\ (Len(df) < 100 \/ Cardinality(PositiveRows) < 50)
                => result.value = EmptyDict
        /\ ~(Len(df) < 100 \/ Cardinality(PositiveRows) < 50)
                => CompletePowerLaw(result.value)
        /\ Len(df) = 40 => result.value = EmptyDict

\* C4 witness: at least 100 rows of which exactly 50 have a positive price,
\* answered with a complete result.
C4_Witness ==
    /\ result.fn = "calculate_power_law_models"
    /\ Len(df) >= 100
    /\ Cardinality(PositiveRows) = 50
    /\ CompletePowerLaw(result.value)

(***************************************************************************)
(* get_technical_indicators                                                *)
(* Values are fixed-point numbers in hundredths of a price unit, kept as   *)
(* Finite(n, 100); an undefined entry (pandas NaN) is NaN.                 *)
(***************************************************************************)

MinIndicatorRows == 50
SmaShort   == 20
SmaLong    == 50
EmaFast    == 12
EmaSlow    == 26
MacdSignal == 9
RsiWindow  == 14
BbWindow   == 20

Hundredths(n) == Finite(n, 100)

\* floor(sqrt(n)) by bisection on lo..hi.
RECURSIVE ISqrtIn(_, _, _)
ISqrtIn(n, lo, hi) ==
    IF lo >= hi THEN lo
    ELSE LET mid == (lo + hi + 1) \div 2
         IN  IF mid * mid <= n THEN ISqrtIn(n, mid, hi) ELSE ISqrtIn(n, lo, mid - 1)

ISqrt(n) == ISqrtIn(n, 0, 46340)

\* Series.rolling(window).sum(): undefined before a full window.
WindowSum(xs, i, window) == SumRange(xs, i - window + 1, i)

\* A rolling mean with min_periods = 1: defined from the first point on.
rolling_mean_min_periods_1(xs, window) ==
    [i \in 1..Len(xs) |->
        LET first == Max(1, i - window + 1)
        IN  Hundredths((SumRange(xs, first, i) * 100) \div (i - first + 1))]

\* Series.rolling(window).mean()
rolling_mean(xs, window) ==
    [i \in 1..Len(xs) |->
        IF i < window THEN NaN
        ELSE Hundredths((WindowSum(xs, i, window) * 100) \div window)]

\* Series.rolling(window).std(): the sample standard deviation (ddof = 1).
rolling_std(xs, window) ==
    [i \in 1..Len(xs) |->
        IF i < window THEN NaN
        ELSE LET sum     == WindowSum(xs, i, window)
                 squares == WindowSum([k \in 1..Len(xs) |-> xs[k] * xs[k]], i, window)
                 spread  == window * squares - sum * sum
                 pairs   == window * (window - 1)
             IN  Hundredths(ISqrt((spread \div pairs) * 10000
                                    + ((spread % pairs) * 10000) \div pairs))]

\* Series.ewm(span).mean() with adjust=True: the weighted mean of all points
\* so far, weights (1 - alpha)^k, alpha = 2 / (span + 1); weights in
\* thousandths. xs are integers, the result is in units of xs times `unit`.
EwmFold(xs, span) ==
    LET step(acc, i) ==
            IF acc = <<>>
            THEN <<[num |-> xs[1] * 1000, den |-> 1000]>>
            ELSE Append(acc,
                    [num |-> xs[i] * 1000
                                + (acc[Len(acc)].num * (span - 1)) \div (span + 1),
                     den |-> 1000 + (acc[Len(acc)].den * (span - 1)) \div (span + 1)])
        \* points lo..hi in order, then the following stretches of 32 points
        RECURSIVE run(_, _, _)
        run(acc, i, hi) ==
            IF i > hi THEN acc
            ELSE LET next == step(acc, i)
                 IN  IF Len(next) = i THEN run(next, i + 1, hi) ELSE next
        RECURSIVE stretches(_, _)
        stretches(acc, lo) ==
            IF lo > Len(xs) THEN acc
            ELSE LET next == run(acc, lo, Min(lo + 31, Len(xs)))
                 IN  IF Len(next) >= lo THEN stretches(next, lo + 32) ELSE next
    IN  stretches(<<>>, 1)

ewm_mean(xs, span, unit) ==
    LET sums == EwmFold(xs, span)
    IN  [i \in 1..Len(xs) |-> (sums[i].num * unit) \div sums[i].den]

\* An RSI whose rs is taken from the net change, gains - losses, of the
\* window in place of its gains.
rsi_value_of_net_change(gains, losses) ==
    LET rs_num == (gains - losses) * 100000
        rs_den == losses * 100000 + RsiWindow
    IN  Div(100 * (rs_num + rs_den) - 100 * rs_den, rs_num + rs_den)

\* rs = avg_gains / (avg_losses + epsilon) and rsi = 100 - 100 / (1 + rs),
\* from the window's sums of gains and of losses: avg = sum / 14, so
\* rs = gains / (losses + 14 * epsilon). The epsilon is 1 / 100000 of a price
\* unit here (1e-10 in the code): small against any nonzero change.
rsi_value(gains, losses) ==
    LET rs_num == gains * 100000
        rs_den == losses * 100000 + RsiWindow
    IN  Div(100 * (rs_num + rs_den) - 100 * rs_den, rs_num + rs_den)

IndicatorKeys ==
    {"sma_20", "sma_50", "ema_12", "ema_26", "macd_line", "macd_signal",
     "macd_histogram", "rsi", "bb_upper", "bb_middle", "bb_lower", "current_values"}

Shift(x, delta) == IF x.kind = "finite" THEN Finite(x.num + delta, x.den) ELSE x

indicators(prices) ==
    LET n       == Len(prices)
        sma_20  == rolling_mean(prices, SmaShort)
        sma_50  == rolling_mean(prices, SmaLong)
        ema_12  == ewm_mean(prices, EmaFast, 100)
        ema_26  == ewm_mean(prices, EmaSlow, 100)
        macd_line      == [i \in 1..n |-> ema_12[i] - ema_26[i]]
        macd_signal    == ewm_mean(macd_line, MacdSignal, 1)
        macd_histogram == [i \in 1..n |-> macd_line[i] - macd_signal[i]]
        price_changes  == [i \in 1..(n - 1) |-> prices[i + 1] - prices[i]]
        gains   == [i \in 1..(n - 1) |-> IF price_changes[i] > 0 THEN price_changes[i] ELSE 0]
        losses  == [i \in 1..(n - 1) |-> IF price_changes[i] < 0 THEN -price_changes[i] ELSE 0]
        rsi     == [i \in 1..(n - 1) |->
                        IF i < RsiWindow THEN NaN
                        ELSE rsi_value(WindowSum(gains, i, RsiWindow),
                                       WindowSum(losses, i, RsiWindow))]
        bb_middle == sma_20
        bb_std    == rolling_std(prices, BbWindow)
        bb_upper  == [i \in 1..n |-> Shift(bb_middle[i], bb_std[i].num * 2)]
        bb_lower  == [i \in 1..n |-> Shift(bb_middle[i], -(bb_std[i].num * 2))]
    IN  [sma_20         |-> sma_20,
         sma_50         |-> sma_50,
         ema_12         |-> [i \in 1..n |-> Hundredths(ema_12[i])],
         ema_26         |-> [i \in 1..n |-> Hundredths(ema_26[i])],
         macd_line      |-> [i \in 1..n |-> Hundredths(macd_line[i])],
         macd_signal    |-> [i \in 1..n |-> Hundredths(macd_signal[i])],
         macd_histogram |-> [i \in 1..n |-> Hundredths(macd_histogram[i])],
         rsi            |-> rsi,
         bb_upper       |-> bb_upper,
         bb_middle      |-> bb_middle,
         bb_lower       |-> bb_lower,
         current_values |->
            [rsi  |-> rsi[n - 1],
             macd |-> Hundredths(macd_line[n]),
             bb_position |-> Div(prices[n] * 100 - bb_lower[n].num,
                                 bb_upper[n].num - bb_lower[n].num)]]

\* The same function with the length check off by one row.
get_technical_indicators_short_by_one(frame) ==
    IF frame = <<>> \/ Len(frame) < MinIndicatorRows - 1
    THEN EmptyDict
    ELSE indicators(Column(frame, "price"))

get_technical_indicators(frame) ==
    IF frame = <<>> \/ Len(frame) < MinIndicatorRows
    THEN EmptyDict
    ELSE indicators(Column(frame, "price"))

GetTechnicalIndicators ==
    /\ result = NotCalled
    /\ result' = Returned("get_technical_indicators", get_technical_indicators(df))
    /\ UNCHANGED <<df, envVars, authVars, genVars>>

\* Input series by shape: flat, rising, falling, alternating, falling then
\* rising; `level` sets the lowest price and the size of the moves.
Shapes == {"flat", "up", "down", "zigzag", "vee"}

ShapePrice(shape, n, level, i) ==
    CASE shape = "flat"   -> level
      [] shape = "up"     -> level + i
      [] shape = "down"   -> level + (n - i)
      [] shape = "zigzag" -> level + (i % 2) * level
      [] shape = "vee"    -> level + Abs(2 * i - n)

ShapeFrame(shape, n, level) == [i \in 1..n |-> MkRow(i, ShapePrice(shape, n, level, i))]

IndicatorLengths ==
    {0, 1} \cup ((MinIndicatorRows - MaxExtra)..(MinIndicatorRows + MaxExtra))

IndicatorFrames ==
    {ShapeFrame(shape, n, level) :
        shape \in Shapes, n \in IndicatorLengths, level \in 1..MaxPrice}

InitIndicators ==
    /\ df \in IndicatorFrames
    /\ result = NotCalled
    /\ clock = 0 /\ rng = Seeded(0, 0) /\ netcache = NoEntry
    /\ IdleAuth /\ IdleGen

NextIndicators == GetTechnicalIndicators

SpecIndicators == InitIndicators /\ [][NextIndicators]_vars

\* C5: on fewer than 50 points get_technical_indicators returns the empty
\* result (no error, no partial or made-up indicator set); on 50 or more
\* points it returns the full indicator set, every key present.
C5_IndicatorsAllOrNothing ==
    result.fn = "get_technical_indicators" =>
        /\ Len(df) < 50 => result.value = EmptyDict
        /\ Len(df) >= 50 =>
                /\ DOMAIN result.value = IndicatorKeys
                /\ DOMAIN result.value.current_values = {"rsi", "macd", "bb_position"}
                /\ \A key \in IndicatorKeys \ {"current_values"} :
                        Len(result.value[key]) >= Len(df) - 1

\* C5 witness: a series of exactly 49 points answered with the empty result.
C5_Witness ==
    /\ result.fn = "get_technical_indicators"
    /\ Len(df) = 49
    /\ result.value = EmptyDict

(***************************************************************************)
(* fetch_kaspa_price_data                                                  *)
(* Prices are in millionths of a dollar, the random walk in thousandths;   *)
(* exp and sin are evaluated in fixed point.                               *)
(***************************************************************************)

PriceTTL  == 300
FixedSeed == 42

\* Lookback lengths asked for: none (one row, "now") and MaxDays days.
DaysInputs == {0, MaxDays}

\* A lookback whose date range leaves out its end point.
n_points_end_exclusive(days_back) == days_back * 24

\* len(pd.date_range(end - days_back days, end, freq='h'))
n_points(days_back) == days_back * 24 + 1

\* sin(2 * pi * x / period) in thousandths, piecewise linear.
SinThousandths(x, period) ==
    LET t == (4000 * (x % period)) \div period
    IN  IF t <= 1000 THEN t ELSE IF t <= 3000 THEN 2000 - t ELSE t - 4000

\* exp(c / 10) in millionths for c in thousandths: 1 + x + x^2 / 2.
ExpMillionths(c) == 1000000 + 100 * c + (c * c) \div 200

\* The state np.random.seed(42) would have set, had the call been left out:
\* whatever the process-wide generator holds.
generator_state_not_reseeded == rng

\* np.random.seed(42)
generator_state == Seeded(FixedSeed, 0)

\* prices * (1 + np.random.uniform(0, 0.02)), the draw u in thousandths.
high_of(price, u) == price + (price * (u % 21)) \div 1000

\* A low whose draw is uniform over (0, 2) in place of (0, 0.02).
low_of_wide_draw(price, u) == price - (price * 100 * (u % 21)) \div 1000

\* prices * (1 - np.random.uniform(0, 0.02)), the draw u in thousandths.
low_of(price, u) == price - (price * (u % 21)) \div 1000

\* The frame of lines 38-73 at time `now` from the generator states at which
\* lines 42, 59, 66 and 67 drew their n_points values.
price_frame_from_draws(days_back, now, draws) ==
    LET n         == n_points(days_back)
        draw(b, k) == Rand(draws[b].seed, draws[b].pos + k)
        price_changes == [i \in 1..n |-> (draw(1, i - 1) % 41) - 20]
        trend     == [i \in 1..n |-> IF n = 1 THEN 0 ELSE ((i - 1) * 10) \div (n - 1)]
        cyclical  == [i \in 1..n |-> (3 * SinThousandths(i - 1, 24)) \div 1000]
        weekly    == [i \in 1..n |-> (5 * SinThousandths(i - 1, 24 * 7)) \div 1000]
        steps     == [i \in 1..n |-> price_changes[i] + trend[i] + cyclical[i] + weekly[i]]
        cumulative_changes == [i \in 1..n |-> SumRange(steps, 1, i)]
        prices    == [i \in 1..n |->
                        Max((25 * ExpMillionths(cumulative_changes[i])) \div 1000, 1000)]
        volatility == [i \in 1..n |->
                        Abs(price_changes[i] - (IF i = 1 THEN 0 ELSE price_changes[i - 1]))]
        volumes   == [i \in 1..n |->
                        (1000 + 2 * volatility[i]) * (400 + (draw(2, i - 1) % 1600))]
    IN  [i \in 1..n |->
            [timestamp |-> now - days_back * 86400 + (i - 1) * 3600,
             price     |-> prices[i],
             volume    |-> volumes[i],
             high      |-> high_of(prices[i], draw(3, i - 1)),
             low       |-> low_of(prices[i], draw(4, i - 1)),
             open      |-> IF i = 1 THEN prices[1] ELSE prices[i - 1],
             close     |-> prices[i]]]

\* The body of fetch_kaspa_price_data at time `now`, run without
\* interruption from the generator state `state`.
price_frame(days_back, now, state) ==
    price_frame_from_draws(days_back, now,
        [b \in 1..4 |-> Seeded(state.seed, state.pos + (b - 1) * n_points(days_back))])

\* A cache whose entries never expire.
PriceHit_no_expiry(days_back) == cache[days_back].stored >= 0

PriceHit(days_back) == Fresh(cache[days_back], PriceTTL)

fetch_kaspa_price_data(days_back) ==
    IF PriceHit(days_back)
    THEN cache[days_back].value
    ELSE price_frame(days_back, clock, generator_state)

\* What the caller of fetch_kaspa_price_data observed: the outputs of the
\* first call and of the latest call with the same lookback length, when the
\* latest call was made and whether the cache served it.
NoCalls == [made |-> 0, days_back |-> -1, first |-> <<>>, latest |-> <<>>,
            called_at |-> -1, hit |-> FALSE]

Record(days_back, output) ==
    IF calls.made = 0
    THEN [made |-> 1, days_back |-> days_back, first |-> output, latest |-> output,
          called_at |-> clock, hit |-> PriceHit(days_back)]
    ELSE IF calls.days_back = days_back
    THEN [calls EXCEPT !.made = 2, !.latest = output,
                       !.called_at = clock, !.hit = PriceHit(days_back)]
    ELSE calls

FetchKaspaPriceData(days_back) ==
    /\ calls' = Record(days_back, fetch_kaspa_price_data(days_back))
    /\ IF PriceHit(days_back)
       THEN UNCHANGED <<cache, rng>>
       ELSE /\ cache' = [cache EXCEPT
                            ![days_back] = Entry(fetch_kaspa_price_data(days_back))]
            /\ rng' = Seeded(generator_state.seed,
                             generator_state.pos + 4 * n_points(days_back))
    /\ UNCHANGED <<clock, netcache, threads, dataVars, authVars>>

FetchPrices == \E days_back \in DaysInputs : FetchKaspaPriceData(days_back)

FetchNetworkMetrics ==
    /\ FetchNetworkMetricsEffect
    /\ UNCHANGED <<clock, cache, calls, threads, dataVars, authVars>>

Tick ==
    /\ clock + TickStep <= MaxClock
    /\ clock' = clock + TickStep
    /\ UNCHANGED <<rng, netcache, cache, calls, threads, dataVars, authVars>>

InitGen ==
    /\ clock = 0
    /\ rng \in {Seeded(seed, 0) : seed \in 0..MaxSeed}
    /\ netcache = NoEntry
    /\ cache = [days_back \in DaysInputs |-> NoEntry]
    /\ calls = NoCalls
    /\ threads = NoFrame
    /\ IdleAuth /\ IdleData

NextGen ==
    \/ FetchPrices
    \/ FetchNetworkMetrics
    \/ Tick

SpecGen == InitGen /\ [][NextGen]_vars

\* C10 as stated: two calls with the same lookback length yield identical
\* output, timestamps included, whenever they are made.
C10_IdenticalOutput == calls.made = 2 => calls.latest = calls.first

WithoutTimestamp(frame) ==
    [i \in 1..Len(frame) |->
        [price |-> frame[i].price, volume |-> frame[i].volume, high |-> frame[i].high,
         low |-> frame[i].low, open |-> frame[i].open, close |-> frame[i].close]]

\* C10 as amended: two calls with the same lookback length yield the same
\* number of rows and identical price, volume, high, low, open and close
\* columns, whenever made and whatever runs in between; the two timestamp
\* columns differ by the one offset between the two computations.
C10_IdenticalValueColumns ==
    calls.made = 2 =>
        /\ Len(calls.latest) = Len(calls.first)
        /\ WithoutTimestamp(calls.latest) = WithoutTimestamp(calls.first)
        /\ \A i \in 1..Len(calls.first) :
                calls.latest[i].timestamp - calls.first[i].timestamp
                    = calls.latest[1].timestamp - calls.first[1].timestamp

\* C10 witness: a second call of a day of data computed afresh, later than
\* the first, after fetch_network_metrics reseeded the generator.
C10_Witness ==
    /\ calls.made = 2
    /\ Len(calls.first) > 1
    /\ calls.latest[1].timestamp > calls.first[1].timestamp
    /\ netcache # NoEntry

\* The series fetch_kaspa_price_data has produced so far: those its cache
\* holds, one per lookback length.
GeneratedFrames ==
    {cache[days_back].value : days_back \in {d \in DaysInputs : cache[d].stored >= 0}}

\* C11: in every generated series, every row has high >= max(open, close)
\* and low <= min(open, close).
C11_HighLowBracketOpenClose ==
    \A frame \in GeneratedFrames : \A i \in 1..Len(frame) :
        /\ frame[i].high >= Max(frame[i].open, frame[i].close)
        /\ frame[i].low <= Min(frame[i].open, frame[i].close)

\* C12: in every generated series, price, open, close, high and low are
\* strictly positive and volume is non-negative in every row.
C12_PositivePricesAndVolumes ==
    \A frame \in GeneratedFrames : \A i \in 1..Len(frame) :
        /\ frame[i].price > 0 /\ frame[i].open > 0 /\ frame[i].close > 0
        /\ frame[i].high > 0 /\ frame[i].low > 0
        /\ frame[i].volume >= 0

\* C12 witness: a day of hourly rows was generated, one of them with a low
\* strictly under its price.
C12_Witness ==
    \E frame \in GeneratedFrames :
        /\ Len(frame) = n_points(MaxDays)
        /\ \E i \in 1..Len(frame) : frame[i].low < frame[i].price

LastTimestamp(frame) == frame[Len(frame)].timestamp

HourlySteps(frame) ==
    \A i \in 1..(Len(frame) - 1) : frame[i + 1].timestamp = frame[i].timestamp + 3600

\* C13 as stated: the series returned by fetch_kaspa_price_data(L) has one
\* hour between consecutive timestamps, starts at the instant of the call
\* minus L days and ends at the instant of the call.
C13_SpanEndsAtCall ==
    calls.made >= 1 =>
        /\ Len(calls.latest) >= 1
        /\ HourlySteps(calls.latest)
        /\ calls.latest[1].timestamp = calls.called_at - calls.days_back * 86400
        /\ LastTimestamp(calls.latest) = calls.called_at

\* C13 as amended: the series returned by fetch_kaspa_price_data(L) has one
\* hour between consecutive timestamps and spans exactly L days; it ends at
\* the instant it was computed, which is the instant of the call when the
\* call computes it, and less than 300 seconds before the call when the
\* cache serves it.
C13_SpanEndsAtComputation ==
    calls.made >= 1 =>
        /\ Len(calls.latest) >= 1
        /\ HourlySteps(calls.latest)
        /\ calls.latest[1].timestamp
              = LastTimestamp(calls.latest) - calls.days_back * 86400
        /\ LastTimestamp(calls.latest) <= calls.called_at
        /\ calls.called_at - LastTimestamp(calls.latest) < PriceTTL
        /\ ~calls.hit => LastTimestamp(calls.latest) = calls.called_at

\* C13 witness: a day of hourly rows served from the cache after the clock
\* moved on from the instant the rows were computed.
C13_Witness ==
    /\ calls.made >= 1
    /\ calls.hit
    /\ calls.days_back = MaxDays
    /\ LastTimestamp(calls.latest) < calls.called_at

\* What an uncached computation returns at the instant of the latest call.
FreshAtLatestCall == price_frame(calls.days_back, calls.called_at, generator_state)

\* C15 as stated: a result served from the cache equals the result a fresh
\* uncached computation with the same lookback length returns at that moment.
C15_CachedEqualsFresh ==
    (calls.made >= 1 /\ calls.hit) => calls.latest = FreshAtLatestCall

\* C15 as amended: a result served from the cache has the rows of a fresh
\* computation at that moment in every column but the timestamps, which are
\* all earlier by the age of the cache entry, less than 300 seconds.
C15_CachedEqualsFreshButOlder ==
    (calls.made >= 1 /\ calls.hit) =>
        LET fresh == FreshAtLatestCall
            age   == calls.called_at - LastTimestamp(calls.latest)
        IN  /\ Len(calls.latest) = Len(fresh)
            /\ WithoutTimestamp(calls.latest) = WithoutTimestamp(fresh)
            /\ age \in 0..(PriceTTL - 1)
            /\ \A i \in 1..Len(fresh) :
                    fresh[i].timestamp - calls.latest[i].timestamp = age

\* C15 witness: the second call of a lookback length is served from a cache
\* entry at least one clock step old, after fetch_network_metrics ran.
C15_Witness ==
    /\ calls.made = 2
    /\ calls.hit
    /\ calls.called_at - LastTimestamp(calls.latest) >= TickStep
    /\ netcache # NoEntry

(***************************************************************************)
(* Script threads inside fetch_kaspa_price_data and fetch_network_metrics  *)
(* (get_market_stats calls the latter at line 172).  Streamlit runs every  *)
(* session's script in a thread of one process, so numpy's global          *)
(* generator and the st.cache_data stores are common to all of them.  One  *)
(* step is one numpy call; st.cache_data looks a key up and computes its   *)
(* value under that key's lock.                                            *)
(***************************************************************************)

Threads == {"t1", "t2"}

FnInputs == {[fn |-> "fetch_kaspa_price_data", days_back |-> d] : d \in DaysInputs}
                \cup {[fn |-> "fetch_network_metrics", days_back |-> 0]}

\* A thread outside the two functions, and inside one: the call it makes,
\* the line it is at, the generator state at each draw it has made, the
\* value it returned.
Outside == [at |-> "outside", call |-> <<>>, draws |-> <<>>, returned |-> <<>>]
Inside(call, at, draws, returned) ==
    [at |-> at, call |-> call, draws |-> draws, returned |-> returned]

IsPrices(call) == call.fn = "fetch_kaspa_price_data"

\* Number of separate draws in the body, and how many values each takes.
DrawsNeeded(call) == IF IsPrices(call) THEN 4 ELSE 2
BlockSize(call, k) ==
    IF IsPrices(call) THEN n_points(call.days_back)
    ELSE IF k = 1 THEN 1 ELSE NetworkDraws - 1

\* The seed each body installs in the global generator (lines 35 and 121).
BodySeed(call) ==
    IF IsPrices(call) THEN generator_state ELSE Seeded(clock \div SeedPeriod, 0)

Computing(call) ==
    \E u \in Threads : threads[u].call = call /\ threads[u].at \in {"seed", "draw", "return"}

CacheHit(call) ==
    IF IsPrices(call) THEN PriceHit(call.days_back) ELSE NetworkHit

CachedValue(call) ==
    IF IsPrices(call) THEN cache[call.days_back].value ELSE netcache.value

\* The decorated function is entered: a cached value is returned at once,
\* anything else is computed by the body.
EnterCall(t, call) ==
    /\ threads[t].at = "outside"
    /\ ~Computing(call)
    /\ threads' = [threads EXCEPT ![t] =
            IF CacheHit(call)
            THEN Inside(call, "done", <<>>, CachedValue(call))
            ELSE Inside(call, "seed", <<>>, <<>>)]
    /\ UNCHANGED <<rng, cache, netcache>>

\* np.random.seed(...)
SeedGenerator(t) ==
    /\ threads[t].at = "seed"
    /\ rng' = BodySeed(threads[t].call)
    /\ threads' = [threads EXCEPT ![t].at = "draw"]
    /\ UNCHANGED <<cache, netcache>>

\* One np.random.normal / lognormal / uniform / randint call, or the run of
\* them in lines 130-134: it reads and advances the global generator.
DrawValues(t) ==
    LET call == threads[t].call
        k    == Len(threads[t].draws) + 1
    IN  /\ threads[t].at = "draw"
        /\ rng' = Seeded(rng.seed, rng.pos + BlockSize(call, k))
        /\ threads' = [threads EXCEPT
                ![t].draws = Append(@, rng),
                ![t].at = IF k = DrawsNeeded(call) THEN "return" ELSE "draw"]
        /\ UNCHANGED <<cache, netcache>>

BodyValue(call, draws) ==
    IF IsPrices(call)
    THEN price_frame_from_draws(call.days_back, clock, draws)
    ELSE network_metrics_from_draws(draws)

\* The body returns and st.cache_data stores the value.
ReturnValue(t) ==
    LET call  == threads[t].call
        value == BodyValue(call, threads[t].draws)
    IN  /\ threads[t].at = "return"
        /\ threads' = [threads EXCEPT ![t].at = "done", ![t].returned = value]
        /\ IF IsPrices(call)
           THEN /\ cache' = [cache EXCEPT ![call.days_back] = Entry(value)]
                /\ UNCHANGED netcache
           ELSE /\ netcache' = Entry(value)
                /\ UNCHANGED cache
        /\ UNCHANGED rng

ThreadEnters  == (\E t \in Threads, call \in FnInputs : EnterCall(t, call))
                    /\ UNCHANGED <<clock, calls, dataVars, authVars>>
ThreadSeeds   == (\E t \in Threads : SeedGenerator(t))
                    /\ UNCHANGED <<clock, calls, dataVars, authVars>>
ThreadDraws   == (\E t \in Threads : DrawValues(t))
                    /\ UNCHANGED <<clock, calls, dataVars, authVars>>
ThreadReturns == (\E t \in Threads : ReturnValue(t))
                    /\ UNCHANGED <<clock, calls, dataVars, authVars>>

InitThreads ==
    /\ clock = 0
    /\ rng \in {Seeded(seed, 0) : seed \in 0..MaxSeed}
    /\ netcache = NoEntry
    /\ cache = [days_back \in DaysInputs |-> NoEntry]
    /\ calls = NoCalls
    /\ threads = [t \in Threads |-> Outside]
    /\ IdleAuth /\ IdleData

NextThreads ==
    \/ ThreadEnters
    \/ ThreadSeeds
    \/ ThreadDraws
    \/ ThreadReturns

SpecThreads == InitThreads /\ [][NextThreads]_vars

\* What a call returns when no other call runs.
RunAlone(call) ==
    IF IsPrices(call)
    THEN price_frame(call.days_back, clock, generator_state)
    ELSE network_metrics

\* C14: under every interleaving of the calls of several threads, each call
\* returns what it returns when run alone.
C14_CallsDoNotInterfere ==
    \A t \in Threads :
        threads[t].at = "done" => threads[t].returned = RunAlone(threads[t].call)

IndicatorsReturned ==
    /\ result.fn = "get_technical_indicators"
    /\ result.value # EmptyDict

\* The rolling-window outputs and their windows.
RollingWindows ==
    [sma_20 |-> SmaShort, sma_50 |-> SmaLong, rsi |-> RsiWindow,
     bb_upper |-> BbWindow, bb_middle |-> BbWindow, bb_lower |-> BbWindow]

\* C16: every rolling-window output of get_technical_indicators (SMA-20,
\* SMA-50, the Bollinger bands, RSI) has no value at its first window-1
\* positions and a value from position window-1 (0-based) on: SMA-50's first
\* value is at index 49, SMA-20's at index 19.
C16_RollingWarmUpUndefined ==
    IndicatorsReturned =>
        \A key \in DOMAIN RollingWindows :
            LET out == result.value[key]
            IN  \A i \in 1..Len(out) :
                    /\ i <= RollingWindows[key] - 1 => out[i].kind = "nan"
                    /\ i >= RollingWindows[key] => out[i].kind = "finite"

\* C16 witness: on a series of exactly 50 points SMA-50 has its one value at
\* the last position and SMA-20 its first at the twentieth.
C16_Witness ==
    /\ IndicatorsReturned
    /\ Len(df) = 50
    /\ result.value.sma_50[49].kind = "nan"
    /\ result.value.sma_50[50].kind = "finite"
    /\ result.value.sma_20[19].kind = "nan"
    /\ result.value.sma_20[20].kind = "finite"

\* C17: every array in a non-empty result of get_technical_indicators has
\* the length of the input series.
C17_ArraysParallelToInput ==
    IndicatorsReturned =>
        \A key \in IndicatorKeys \ {"current_values"} :
            Len(result.value[key]) = Len(df)

InClosedRange(x, lo, hi) ==
    /\ x.kind = "finite"
    /\ x.den > 0
    /\ lo * x.den <= x.num
    /\ x.num <= hi * x.den

\* C18: every RSI value get_technical_indicators produces is either
\* undefined (warm-up) or lies in [0, 100], whether the window holds no
\* losses, no gains, neither or both.
C18_RsiWithinBounds ==
    IndicatorsReturned =>
        /\ \A i \in 1..Len(result.value.rsi) :
                \/ result.value.rsi[i].kind = "nan"
                \/ InClosedRange(result.value.rsi[i], 0, 100)
        /\ InClosedRange(result.value.current_values.rsi, 0, 100)

\* C18 witness: a rising series, no losses in the last window: the last RSI
\* is above 99 (and the bound 100 is what holds it).
C18_Witness ==
    /\ IndicatorsReturned
    /\ \A i \in 2..Len(df) : df[i].price > df[i - 1].price
    /\ result.value.current_values.rsi.kind = "finite"
    /\ result.value.current_values.rsi.num > 99 * result.value.current_values.rsi.den

PowerLawReturned ==
    /\ result.fn = "calculate_power_law_models"
    /\ result.value # EmptyDict

\* Other constants for the three curves: each triple moved, one component
\* or all of them.
OtherTriples(params) ==
    {[a |-> params.a + da, b |-> params.b + db, c |-> params.c + dc] :
        da \in {0, 5}, db \in {0, 3}, dc \in {0, 2}} \ {params}

OtherScenarioParams ==
    {[conservative |-> p1, base |-> p2, aggressive |-> p3] :
        p1 \in OtherTriples(conservative_params),
        p2 \in OtherTriples(base_params),
        p3 \in OtherTriples(aggressive_params)}

\* The run on the same series with other constants for the curves.
RunWithParams(params) ==
    power_law_result_with(SelectSeq(df, IsPositive),
                          MinSeq(Column(df, "timestamp")), params)

CurveKeys == {"conservative_model", "base_model", "aggressive_model"}

\* C20 as stated: in every non-empty result each of the three curves has
\* the length of the input series.
C20_CurvesAsLongAsInput ==
    PowerLawReturned =>
        \A key \in CurveKeys : Len(result.value[key]) = Len(df)

\* C20 as amended: in every non-empty result each of the three curves has
\* the length of the filtered series, the input rows with price > 0, which
\* is the length of the returned timestamps and actual_prices and the
\* data_points count; it is the length of the input exactly when no input
\* row has a price of zero or less.
C20_CurvesAsLongAsFilteredInput ==
    PowerLawReturned =>
        \A key \in CurveKeys :
            /\ Len(result.value[key]) = Cardinality(PositiveRows)
            /\ Len(result.value[key]) = Len(result.value.timestamps)
            /\ Len(result.value[key]) = Len(result.value.actual_prices)
            /\ Len(result.value[key]) = result.value.statistics.data_points
            /\ (Len(result.value[key]) = Len(df)) <=> (\A i \in 1..Len(df) : df[i].price > 0)

\* C20 witness: a non-empty result on a series with rows of price zero or
\* less: the curves are shorter than the input.
C20_Witness ==
    /\ PowerLawReturned
    /\ \E i \in 1..Len(df) : df[i].price <= 0
    /\ Len(result.value.base_model) < Len(df)

(***************************************************************************)
(* get_market_stats and get_technical_indicators on a rising series        *)
(***************************************************************************)

\* A strictly increasing series from ExampleLow to ExampleHigh that climbs
\* `height` over its first `knee` points and the rest over the others, both
\* stretches at one unit a point or more.
RampPrice(knee, height, i) ==
    IF i <= knee
    THEN ExampleLow + (height * (i - 1)) \div (knee - 1)
    ELSE ExampleLow + height
            + ((ExampleHigh - ExampleLow - height) * (i - knee)) \div (ExamplePoints - knee)

RampFrame(knee, height) ==
    [i \in 1..ExamplePoints |-> MkRow(i, RampPrice(knee, height, i))]

Knees == {ExamplePoints \div 4, ExamplePoints \div 2, (3 * ExamplePoints) \div 4}

KneeHeights(knee) ==
    {height \in {50 * k : k \in 1..7} :
        /\ height >= knee - 1
        /\ ExampleHigh - ExampleLow - height >= ExamplePoints - knee}

ExampleFrames ==
    UNION {{RampFrame(knee, height) : height \in KneeHeights(knee)} : knee \in Knees}

InitExample ==
    /\ df \in ExampleFrames
    /\ result = NotCalled
    /\ StartEnv
    /\ IdleAuth /\ IdleGen

NextExample ==
    \/ GetMarketStats
    \/ GetTechnicalIndicators

SpecExample == InitExample /\ [][NextExample]_vars

IsAbove(x, bound) == x.kind = "finite" /\ x.den > 0 /\ x.num > bound * x.den

\* C21: on a 200-point series rising from 0.01 to 0.05, get_market_stats
\* gives price_change_24h > 0 and get_technical_indicators gives an RSI
\* near 100 (above 99) for the final window and, from the first SMA-20 value
\* on, an SMA-20 below the price at the same index.
C21_RisingSeriesExample ==
    /\ (result.fn = "get_market_stats" /\ result.value # EmptyDict)
            => IsAbove(result.value.price_change_24h, 0)
    /\ IndicatorsReturned =>
            /\ IsAbove(result.value.current_values.rsi, 99)
            /\ IsAbove(result.value.rsi[Len(result.value.rsi)], 99)
            /\ \A i \in SmaShort..Len(df) :
                    /\ result.value.sma_20[i].kind = "finite"
                    /\ result.value.sma_20[i].num < df[i].price * result.value.sma_20[i].den

\* C21 witness: the indicators of a series of 200 strictly increasing points
\* from 0.01 to 0.05.
C21_Witness ==
    /\ IndicatorsReturned
    /\ Len(df) = ExamplePoints
    /\ df[1].price = ExampleLow
    /\ df[ExamplePoints].price = ExampleHigh
    /\ \A i \in 2..ExamplePoints : df[i].price > df[i - 1].price
    /\ IsAbove(result.value.current_values.rsi, 99)

\* Two amounts are the same number: the same value at the same power of
\* ten, or both zero.
SameQuantity(x, y) ==
    \/ IsZero(x.value) /\ IsZero(y.value)
    \/ x.exp10 = y.exp10 /\ SameNumber(x.value, y.value)

PriceTimes(price, quantity) ==
    Quantity(Div(price * quantity.value.num, quantity.value.den), quantity.exp10)

\* C22 as stated: market_cap of get_market_stats is current_price times the
\* one supply constant, 18,500,000,000, that fetch_real_kaspa_price uses for
\* its market_cap and fetch_network_metrics reports as circulating_supply.
C22_MarketCapUsesTheSupplyConstant ==
    StatsReturned =>
        /\ SameQuantity(Quantity(result.value.market_cap, 0),
                        PriceTimes(LastPrice, network_metrics.circulating_supply))
        /\ SameQuantity(Quantity(result.value.market_cap, 0),
                        real_kaspa_price(df).market_cap)

\* C22 as amended: market_cap of get_market_stats is current_price times
\* 18.5, the market capitalisation in billions; times 10^9 it is what
\* fetch_real_kaspa_price reports on the same series, current_price times
\* 18,500,000,000, the circulating_supply of fetch_network_metrics.
C22_MarketCapInBillions ==
    StatsReturned =>
        /\ SameNumber(result.value.market_cap, Finite(LastPrice * 185, 10))
        /\ SameQuantity(Quantity(result.value.market_cap, 9),
                        real_kaspa_price(df).market_cap)
        /\ SameQuantity(real_kaspa_price(df).market_cap,
                        PriceTimes(LastPrice, network_metrics.circulating_supply))
        /\ LastPrice # 0 =>
                ~SameQuantity(Quantity(result.value.market_cap, 0),
                              real_kaspa_price(df).market_cap)

\* C22 witness: market statistics of a series whose last price is not zero.
C22_Witness ==
    /\ StatsReturned
    /\ LastPrice > 0
    /\ result.value.market_cap.kind = "finite"
    /\ result.value.market_cap.num > 0

(***************************************************************************)
(* Claims about routing, the session and the credential store              *)
(***************************************************************************)

PageShown(page) == last.op = "page_main" /\ last.target[1] = page
MenuSelected(page) == last.op = "handle_menu_selection" /\ last.target = page

\* C23: for a user of tier public, free, premium or pro, the Network
\* Metrics and Data Export pages show their content, and the menu handler
\* navigates to them, iff check_feature_access grants network_metrics, resp.
\* data_export, to the tier; the Power Law page shows content and the handler
\* navigates to it iff the tier is granted power_law_basic, and the page
\* shows the advanced variant iff the tier is granted power_law_advanced.
C23_RoutingAgreesWithTable ==
    last.subscription \in Tiers =>
        /\ \A page \in {"network_metrics", "data_export"} :
                (PageShown(page) \/ MenuSelected(page))
                    => (last.ok <=> check_feature_access(page, last.subscription))
        /\ (PageShown("power_law") \/ MenuSelected("power_law"))
                => (last.ok <=> check_feature_access("power_law_basic", last.subscription))
        /\ PageShown("power_law")
                => (last.target[2] = "advanced"
                        <=> check_feature_access("power_law_advanced", last.subscription))

UnknownFeatureLookup ==
    /\ last.op = "check_feature_access"
    /\ last.target \notin KnownFeatures

\* C24: check_feature_access on a feature name the table does not hold
\* answers as for a pro-only feature: true for tier pro, false for every
\* other tier, the strings outside the four tiers included.
C24_UnknownFeatureIsProOnly ==
    UnknownFeatureLookup => (last.ok <=> last.subscription = "pro")

\* C24 witness: a lookup of an unknown feature granted to pro.
C24_Witness ==
    /\ UnknownFeatureLookup
    /\ last.subscription = "pro"
    /\ last.ok

TierRank == [public |-> 0, free |-> 1, premium |-> 2, pro |-> 3]

\* C25: a feature, known or not, that check_feature_access grants to a tier
\* is granted to every higher tier in the order public < free < premium <
\* pro, and pro is granted every feature.
C25_EntitlementsMonotone ==
    (last.op = "check_feature_access" /\ last.subscription \in Tiers) =>
        /\ last.ok =>
                \A higher \in Tiers :
                    TierRank[higher] >= TierRank[last.subscription]
                        => check_feature_access(last.target, higher)
        /\ last.subscription = "pro" => last.ok

\* C25 witness: power_law_basic granted on a lookup for tier free, the
\* lowest tier that has it.
C25_Witness ==
    /\ last.op = "check_feature_access"
    /\ last.target = "power_law_basic"
    /\ last.subscription = "free"
    /\ last.ok
    /\ ~check_feature_access("power_law_basic", "public")

StoredTier(username) ==
    IF username \in DOMAIN auth_config
    THEN auth_config[username].subscription
    ELSE "free"

\* C26: get_current_user returns username 'public' with tier 'public'
\* exactly when the session's authentication_status is not True; when it is
\* True it returns the tier stored for the session's username, or 'free'
\* when the store has no record of it; a session that is not authenticated
\* is never given another tier than public.
C26_PublicIffNotAuthenticated ==
    LET user == get_current_user
    IN  /\ (user.username = "public" /\ user.subscription = "public")
                <=> session.authentication_status # "True"
        /\ session.authentication_status = "True"
                => user.subscription = StoredTier(session.username)
        /\ session.authentication_status # "True"
                => user.subscription = "public"

PublicUser == [name |-> "Public User", username |-> "public", subscription |-> "public"]

OnlyLoginAuthenticates ==
    (~is_authenticated /\ is_authenticated') => (last'.op = "login" /\ last'.ok)

\* C27: after logout_user, from any state, is_authenticated() is false and
\* get_current_user returns the public user, until the next successful
\* login; the session keys authentication_status, name, username, logout,
\* show_profile, show_auth, auth_tab and current_page are absent, and the
\* credential store is unchanged.
C27_LogoutLeavesKeysAbsent ==
    /\ [][last'.op = "logout_user" =>
            /\ ~is_authenticated'
            /\ get_current_user' = PublicUser
            /\ \A key \in auth_keys \cup page_keys : session'[key] = Absent
            /\ auth_config' = auth_config]_vars
    /\ [][OnlyLoginAuthenticates]_vars

\* C27 as the code has it: the same, except that the four authentication
\* keys are absent or hold None (the authenticator constructed inside
\* logout_user may put them back with that value); the four page keys are
\* absent.
C27_LogoutLeavesNoIdentity ==
    /\ [][last'.op = "logout_user" =>
            /\ ~is_authenticated'
            /\ get_current_user' = PublicUser
            /\ \A key \in auth_keys : session'[key] \in {Absent, None}
            /\ \A key \in page_keys : session'[key] = Absent
            /\ auth_config' = auth_config]_vars
    /\ [][OnlyLoginAuthenticates]_vars

\* C27 witness: a logout after a login (the login page has set current_page
\* and the store holds a registered user), with the authentication keys back
\* as None.
C27_Witness ==
    /\ last.op = "logout_user"
    /\ \A key \in auth_keys : session[key] = None
    /\ session.current_page = Absent
    /\ "alice" \in DOMAIN auth_config
    /\ get_current_user = PublicUser

OthersUntouched(username) ==
    \A other \in DOMAIN auth_config \ {username} :
        /\ other \in DOMAIN auth_config'
        /\ auth_config'[other] = auth_config[other]

\* C28: add_user with a username already in the credential store, or with an
\* e-mail that has no '@', returns (False, message) and leaves the store
\* unchanged; on success it adds exactly one record, with the given tier,
\* failed_login_attempts = 0 and logged_in = False, and changes no other
\* record. Hence no add_user call alters an existing user's record, and an
\* add_user with a username the store already has always fails.
C28_AddUserAddsOneRecordOrNothing ==
    /\ [][last'.op = "add_user" =>
            \A email \in EmailInputs, password \in NewPasswordInputs,
               subscription \in TierInputs :
                add_user(last'.username, email, password, subscription) =>
                    IF last'.username \in DOMAIN auth_config \/ ~HasAt(email)
                    THEN ~last'.ok /\ auth_config' = auth_config
                    ELSE /\ last'.ok
                         /\ DOMAIN auth_config' = DOMAIN auth_config \cup {last'.username}
                         /\ auth_config'[last'.username].subscription = subscription
                         /\ auth_config'[last'.username].failed_login_attempts = 0
                         /\ auth_config'[last'.username].logged_in = FALSE
                         /\ OthersUntouched(last'.username)]_vars
    /\ [][last'.op = "add_user" =>
            /\ \A known \in DOMAIN auth_config :
                    known \in DOMAIN auth_config' /\ auth_config'[known] = auth_config[known]
            /\ last'.username \in DOMAIN auth_config => ~last'.ok]_vars

\* C28 witness: a second add_user with the name of a user that an earlier
\* add_user stored has just been refused, and that user's record is as
\* stored.
C28_Witness ==
    /\ last.op = "add_user"
    /\ last.username = "alice"
    /\ ~last.ok
    /\ last.target = "Username already exists"
    /\ auth_config["alice"].failed_login_attempts = 0
    /\ auth_config["alice"].logged_in = FALSE
    /\ auth_config["alice"].subscription = "premium"

\* C29: update_user_subscription on a username that is not in the credential
\* store returns (False, 'User not found') and changes nothing; on a known
\* username it changes only that user's subscription field (no other field,
\* no other user, no session key), and from then on get_current_user reports
\* the new tier when that user is the one logged in.
C29_UpdateChangesOnlyTheTier ==
    [][last'.op = "update_user_subscription" =>
            \A new_subscription \in TierInputs :
                update_user_subscription(last'.username, new_subscription) =>
                    /\ session' = session
                    /\ IF last'.username \notin DOMAIN auth_config
                       THEN /\ ~last'.ok
                            /\ last'.target = "User not found"
                            /\ auth_config' = auth_config
                       ELSE /\ last'.ok
                            /\ DOMAIN auth_config' = DOMAIN auth_config
                            /\ auth_config'[last'.username] =
                                    [auth_config[last'.username]
                                        EXCEPT !.subscription = new_subscription]
                            /\ OthersUntouched(last'.username)
                            /\ (is_authenticated' /\ session'.username = last'.username)
                                    => get_current_user'.subscription = new_subscription]_vars

\* C29 witness: the logged-in user alice, registered as free, has just been
\* moved to pro and get_current_user reports pro.
C29_Witness ==
    /\ last.op = "update_user_subscription"
    /\ last.username = "alice"
    /\ last.ok
    /\ is_authenticated
    /\ session.username = "alice"
    /\ get_current_user.subscription = "pro"
    /\ auth_config["alice"].password = Bcrypt("secret1")

(***************************************************************************)
(* utils/data.py: filter_data_by_subscription                              *)
(***************************************************************************)

\* Limits counted in days, as get_subscription_features has them (data_days).
data_limits_in_days == [public |-> 7, free |-> 30, premium |-> 0, pro |-> 0]

\* Rows (hours) a tier may see; 0 means no limit.
data_limits == [public |-> 7 * 24, free |-> 30 * 24, premium |-> 0, pro |-> 0]

filter_data_by_subscription(frame, subscription_level) ==
    IF frame = <<>> THEN frame
    ELSE LET limit == IF subscription_level \in DOMAIN data_limits
                      THEN data_limits[subscription_level]
                      ELSE 7 * 24
         IN  IF limit = 0 THEN frame ELSE tail(frame, limit)

FilterDataBySubscription ==
    /\ result = NotCalled
    /\ \E subscription_level \in TierInputs :
            result' = Returned("filter_data_by_subscription",
                               [subscription_level |-> subscription_level,
                                rows |-> filter_data_by_subscription(df, subscription_level)])
    /\ UNCHANGED <<df, envVars, authVars, genVars>>

\* Series lengths around the limits, with a marked row at either end.
FilterLengths ==
    (0..MaxExtra)
    \cup {n \in 1..(data_limits.free + MaxExtra) :
            \E level \in {"public", "free"} :
                n - data_limits[level] \in (-MaxExtra)..MaxExtra}

FilterFrames ==
    {SpikeFrame(n, at, MaxPrice) : n \in FilterLengths, at \in {0, 1, MaxExtra + 1}}

InitFilter ==
    /\ df \in FilterFrames
    /\ result = NotCalled
    /\ IdleEnv /\ IdleAuth /\ IdleGen

NextFilter == FilterDataBySubscription

SpecFilter == InitFilter /\ [][NextFilter]_vars

Filtered == result.fn = "filter_data_by_subscription"

\* The last k rows of s, k <= Len(s), in the order s has them.
LastRows(s, k) == [j \in 1..k |-> s[Len(s) - k + j]]

IsSuffix(rows, s) == Len(rows) <= Len(s) /\ rows = LastRows(s, Len(rows))

\* C30: filter_data_by_subscription returns the input unchanged for tiers
\* premium and pro, the last min(len, 720) rows for free and the last
\* min(len, 168) rows for public and for any unknown tier; the result is a
\* suffix of the input in the original order, and the rows a lower tier sees
\* are a suffix of the rows every higher tier sees.
C30_FilterKeepsASuffixPerTier ==
    Filtered =>
        LET rows  == result.value.rows
            level == result.value.subscription_level
        IN  /\ level \in {"premium", "pro"} => rows = df
            /\ level = "free" => rows = LastRows(df, Min(Len(df), 720))
            /\ level \notin {"premium", "pro", "free"}
                    => rows = LastRows(df, Min(Len(df), 168))
            /\ IsSuffix(rows, df)
            /\ \A higher \in Tiers :
                    (level \in Tiers => TierRank[higher] >= TierRank[level])
                        => IsSuffix(rows, filter_data_by_subscription(df, higher))

\* C30 witness: a series longer than 720 rows cut to its last 720 rows for
\* tier free, the first of them not the first row of the input.
C30_Witness ==
    /\ Filtered
    /\ result.value.subscription_level = "free"
    /\ Len(df) > 720
    /\ Len(result.value.rows) = 720
    /\ result.value.rows[1] = df[Len(df) - 719]
    /\ result.value.rows[1] # df[1]

====
